---- MODULE Spec2Model ----
(***************************************************************************)
(* Model of src/src/index.js: a Cloudflare Worker that answers a POST with *)
(* a job id and runs, in the background, createAndRunGemini: create a      *)
(* Firestore document, call the Gemini API under a 45 s deadline, and      *)
(* patch the document to "completed" or "failed".                          *)
(***************************************************************************)
EXTENDS Integers, Sequences, FiniteSets, TLC

(***************************************************************************)
(* Bounds of the model.                                                    *)
(***************************************************************************)
\* Largest durationDays a request asks for; generated itineraries have
\* 0..MaxDays day-objects.
MaxDays == 2
\* The clock advances in steps of TIMEOUT_MS, at most MaxTicks times.
MaxTicks == 2

\* The deadline of the generation call (line 255).
TIMEOUT_MS == 45000

\* The requests the worker receives, and so the background jobs.  Jobs share
\* no state but the store, where each writes only the document of its own id.
Jobs == {"job-1"}

(***************************************************************************)
(* JavaScript values.  Every value is a record of the same shape:          *)
(*   t  the type: "undef", "null", "bool", "num", "str", "arr", "obj"      *)
(*   n  a number's integral part, f its fraction in thousandths            *)
(*   s  a string's text ("true"/"false" for a boolean)                     *)
(*   k  an object's keys, in insertion order                               *)
(*   a  an array's elements, or an object's values (in the order of k)     *)
(***************************************************************************)
JV(t, n, f, s, k, a) == [t |-> t, n |-> n, f |-> f, s |-> s, k |-> k, a |-> a]
JUndef == JV("undef", 0, 0, "", <<>>, <<>>)
JNull == JV("null", 0, 0, "", <<>>, <<>>)
JBool(b) == JV("bool", 0, 0, IF b THEN "true" ELSE "false", <<>>, <<>>)
JNum(x) == JV("num", x, 0, "", <<>>, <<>>)
JFrac(x, thousandths) == JV("num", x, thousandths, "", <<>>, <<>>)
JStr(x) == JV("str", 0, 0, x, <<>>, <<>>)
JArr(elems) == JV("arr", 0, 0, "", <<>>, elems)
JObj(keys, vals) == JV("obj", 0, 0, "", keys, vals)

\* "key in v" / own property of an object.
HasKey(v, key) == v.t = "obj" /\ \E i \in DOMAIN v.k : v.k[i] = key

\* v.key, and v?.key: undefined when v has no such property.  (Reading a
\* property of null or undefined without ?. throws; the callers decide.)
GetProp(v, key) ==
    IF HasKey(v, key)
    THEN v.a[CHOOSE i \in DOMAIN v.k : v.k[i] = key]
    ELSE JUndef

\* v?.[0]
First(v) == IF v.t = "arr" /\ Len(v.a) > 0 THEN v.a[1] ELSE JUndef

\* JavaScript truthiness: !v is ~Truthy(v).
Truthy(v) ==
    CASE v.t = "undef" -> FALSE
      [] v.t = "null" -> FALSE
      [] v.t = "bool" -> v.s = "true"
      [] v.t = "num" -> v.n # 0 \/ v.f # 0
      [] v.t = "str" -> v.s # ""
      [] OTHER -> TRUE

\* Number.isInteger(v)
IsInteger(v) == v.t = "num" /\ v.f = 0

RECURSIVE JoinWith(_, _)
JoinWith(strs, sep) ==
    IF Len(strs) = 0 THEN ""
    ELSE IF Len(strs) = 1 THEN strs[1]
    ELSE strs[1] \o sep \o JoinWith(Tail(strs), sep)

\* Three digits of a fraction in thousandths, trailing zeros dropped.
FracDigits(f) ==
    LET d1 == f \div 100
        d2 == (f \div 10) % 10
        d3 == f % 10
    IN  ToString(d1) \o (IF d2 = 0 /\ d3 = 0 THEN ""
                         ELSE ToString(d2) \o (IF d3 = 0 THEN "" ELSE ToString(d3)))

\* String(v)
RECURSIVE JSString(_)
JSString(v) ==
    CASE v.t = "undef" -> "undefined"
      [] v.t = "null" -> "null"
      [] v.t = "bool" -> v.s
      [] v.t = "num" -> IF v.f = 0 THEN ToString(v.n)
                        ELSE ToString(v.n) \o "." \o FracDigits(v.f)
      [] v.t = "str" -> v.s
      [] v.t = "arr" ->
            JoinWith([i \in DOMAIN v.a |->
                        IF v.a[i].t \in {"null", "undef"} THEN ""
                        ELSE JSString(v.a[i])], ",")
      [] OTHER -> "[object Object]"

\* Object.keys(v) of a non-null value: an object's keys, the indices of an
\* array or of a string, nothing for a number or a boolean.
ObjectKeys(v) ==
    CASE v.t = "obj" -> v.k
      [] v.t = "arr" -> [i \in DOMAIN v.a |-> ToString(i - 1)]
      [] v.t = "str" -> [i \in 1 .. Len(v.s) |-> ToString(i - 1)]
      [] OTHER -> <<>>

(***************************************************************************)
(* Wire values of the document store (lines 43-59).  Again one shape:      *)
(*   tag  "nullValue", "arrayValue", "timestampValue", "mapValue",         *)
(*        "integerValue", "doubleValue", "stringValue"                     *)
(*   n, f the number of an integerValue or doubleValue                     *)
(*   s    the text of a stringValue or timestampValue                      *)
(*   k, a the field names and values of a mapValue, the values of an       *)
(*        arrayValue                                                       *)
(* "absent" marks a field a document does not have, "throw" an exception   *)
(* raised while encoding (s is its message).                               *)
(***************************************************************************)
WV(tag, n, f, s, k, a) ==
    [tag |-> tag, n |-> n, f |-> f, s |-> s, k |-> k, a |-> a]
Absent == WV("absent", 0, 0, "", <<>>, <<>>)
WThrow(msg) == WV("throw", 0, 0, msg, <<>>, <<>>)
WNull == WV("nullValue", 0, 0, "", <<>>, <<>>)
WStr(x) == WV("stringValue", 0, 0, x, <<>>, <<>>)
WInt(x) == WV("integerValue", x, 0, "", <<>>, <<>>)
WTs(iso) == WV("timestampValue", 0, 0, iso, <<>>, <<>>)

Pad2(x) == IF x < 10 THEN "0" \o ToString(x) ELSE ToString(x)
Pad3(x) == IF x < 10 THEN "00" \o ToString(x)
           ELSE IF x < 100 THEN "0" \o ToString(x) ELSE ToString(x)
Pad4(x) == IF x < 1000 THEN "0" \o Pad3(x) ELSE ToString(x)

\* The element of a one-element set: the value is computed once and named.
The(S) == CHOOSE x \in S : TRUE

\* new Date(secs * 1e3 + ms).toISOString() for 0 <= secs, 0 <= ms < 1000:
\* the civil date of the day number (day of era doe, year of era yoe, day
\* of year doy, month from March mp), then the time of day.
ToISOString(secs, ms) ==
    LET sod == secs % 86400
        z == secs \div 86400 + 719468
        era == z \div 146097
        Date(yoe, doy, mp) ==
            LET d == doy - (153 * mp + 2) \div 5 + 1
                m == IF mp < 10 THEN mp + 3 ELSE mp - 9
                y == yoe + era * 400 + (IF mp < 10 THEN 0 ELSE 1)
            IN  Pad4(y) \o "-" \o Pad2(m) \o "-" \o Pad2(d)
        OfDoy(yoe, doy) ==
            The({Date(yoe, doy, mp) : mp \in {(5 * doy + 2) \div 153}})
        OfYoe(doe, yoe) ==
            The({OfDoy(yoe, doy) :
                   doy \in {doe - (365 * yoe + yoe \div 4 - yoe \div 100)}})
        OfDoe(doe) ==
            The({OfYoe(doe, yoe) :
                   yoe \in {(doe - doe \div 1460 + doe \div 36524
                                 - doe \div 146096) \div 365}})
    IN  The({OfDoe(doe) : doe \in {z - era * 146097}}) \o "T"
        \o Pad2(sod \div 3600) \o ":" \o Pad2((sod % 3600) \div 60) \o ":"
        \o Pad2(sod % 60) \o "." \o Pad3(ms) \o "Z"

\* v.seconds * 1e3 is a number (not NaN) for these values of v.seconds; the
\* strings and arrays of the model are not numeric, so only "" and [] are.
TimeIsNumber(sv) ==
    \/ sv.t \in {"num", "null", "bool"}
    \/ sv.t = "str" /\ sv.s = ""
    \/ sv.t = "arr" /\ Len(sv.a) = 0

\* wrap of a record that carries "seconds" (lines 46-47).  toISOString
\* throws a RangeError on an invalid date.
WrapTimestamp(v) ==
    LET sv == GetProp(v, "seconds")
    IN  IF ~TimeIsNumber(sv) THEN WThrow("Invalid time value")
        ELSE IF sv.t = "num" THEN WTs(ToISOString(sv.n, sv.f))
        ELSE IF sv.t = "bool" /\ sv.s = "true" THEN WTs(ToISOString(1, 0))
        ELSE WTs(ToISOString(0, 0))

\* The first exception among encoded values, or Absent when there is none.
FirstThrow(ws) ==
    IF \E i \in DOMAIN ws : ws[i].tag = "throw"
    THEN LET i == CHOOSE i \in DOMAIN ws :
                    /\ ws[i].tag = "throw"
                    /\ \A h \in DOMAIN ws : ws[h].tag = "throw" => i <= h
         IN  ws[i]
    ELSE Absent

\* wrap(v), lines 43-59, its rules in the order of the code.
RECURSIVE wrap(_)
wrap(v) ==
    IF v.t = "null" THEN WNull
    ELSE IF v.t = "arr" THEN
        LET ws == [i \in DOMAIN v.a |-> wrap(v.a[i])]
        IN  IF FirstThrow(ws).tag = "throw" THEN FirstThrow(ws)
            ELSE WV("arrayValue", 0, 0, "", <<>>, ws)
    ELSE IF v.t = "obj" /\ HasKey(v, "seconds") THEN WrapTimestamp(v)
    ELSE IF v.t = "obj" THEN
        LET ws == [i \in DOMAIN v.a |-> wrap(v.a[i])]
        IN  IF FirstThrow(ws).tag = "throw" THEN FirstThrow(ws)
            ELSE WV("mapValue", 0, 0, "", v.k, ws)
    ELSE IF v.t = "num" /\ IsInteger(v) THEN WInt(v.n)
    ELSE IF v.t = "num" THEN WV("doubleValue", v.n, v.f, "", <<>>, <<>>)
    ELSE WStr(JSString(v))

\* nowTS(), lines 39-42, at clock value ms.
nowTS(ms) == JObj(<<"seconds", "nanos">>, <<JNum(ms \div 1000), JNum(0)>>)

(***************************************************************************)
(* Documents of the store.  A document is a record over Fields; a field    *)
(* the document does not have is Absent.                                   *)
(***************************************************************************)
Fields ==
    {"status", "destination", "durationDays", "createdAt", "completedAt",
     "itinerary", "error"}
NoDoc == [exists |-> FALSE, fields |-> [fl \in Fields |-> Absent]]

\* {fields: Object.fromEntries(Object.entries(data).map(([k,v]) => [k, wrap(v)]))}
\* (lines 134-138 and 164-168): the encoded fields, or the exception.
EncodeFields(data) ==
    LET ws == [i \in DOMAIN data.a |-> wrap(data.a[i])]
    IN  IF FirstThrow(ws).tag = "throw" THEN FirstThrow(ws)
        ELSE WV("mapValue", 0, 0, "", data.k, ws)

\* An update mask that names every field of the record, given or not.
UpdateMaskAll(data) == Fields

\* The update mask of patchDoc (lines 152-154): one field path per key.
UpdateMask(data) == {data.k[i] : i \in DOMAIN data.k}

\* The store's side of an accepted create: a document with the body's fields.
StoreCreate(body) ==
    [exists |-> TRUE,
     fields |-> [fl \in Fields |->
                   IF \E i \in DOMAIN body.k : body.k[i] = fl
                   THEN body.a[CHOOSE i \in DOMAIN body.k : body.k[i] = fl]
                   ELSE Absent]]

\* The store's side of an accepted patch: the fields the mask names take the
\* body's values (a masked field the body lacks is deleted), the others stay.
\* A patch without precondition of a document that does not exist inserts it.
StorePatch(doc, mask, body) ==
    [exists |-> TRUE,
     fields |-> [fl \in Fields |->
                   IF fl \in mask
                   THEN IF \E i \in DOMAIN body.k : body.k[i] = fl
                        THEN body.a[CHOOSE i \in DOMAIN body.k : body.k[i] = fl]
                        ELSE Absent
                   ELSE doc.fields[fl]]]

(***************************************************************************)
(* JSON text.                                                              *)
(***************************************************************************)
\* JSON.stringify(v); the strings of the model need no escaping.
RECURSIVE JSONStringify(_)
JSONStringify(v) ==
    CASE v.t \in {"null", "undef"} -> "null"
      [] v.t \in {"bool", "num"} -> JSString(v)
      [] v.t = "str" -> "\"" \o v.s \o "\""
      [] v.t = "arr" ->
            "[" \o JoinWith([i \in DOMAIN v.a |-> JSONStringify(v.a[i])], ",") \o "]"
      [] OTHER ->
            "{" \o JoinWith([i \in DOMAIN v.a |->
                     "\"" \o v.k[i] \o "\":" \o JSONStringify(v.a[i])], ",") \o "}"

\* The day-objects and itineraries the generation service is asked for
\* (the prompt, lines 201-239).
Activity ==
    JObj(<<"time", "description", "location">>,
         <<JStr("9:00 AM"), JStr("Walk"), JStr("Old Town")>>)
DayObject(i) ==
    JObj(<<"day", "theme", "activities">>,
         <<JNum(i), JStr("Sights"), JArr(<<Activity>>)>>)
Itinerary(len) == JArr([i \in 1 .. len |-> DayObject(i)])

\* The JSON values a generation response's text may hold in this model.
ParsedValues ==
    {JNull, JNum(0), JObj(<<>>, <<>>),
     JObj(<<"notItinerary">>, <<JArr(<<>>)>>),
     JObj(<<"itinerary", "note">>, <<JNull, JStr("none")>>),
     JObj(<<"itinerary">>, <<JStr("soon")>>),
     JObj(<<"itinerary">>,
          <<JArr(<<JObj(<<"day", "seconds">>, <<JNum(1), JStr("soon")>>)>>)>>)}
    \cup {JObj(<<"itinerary">>, <<Itinerary(len)>>) : len \in 0 .. MaxDays}

\* JSON.parse(text): the value whose JSON text this is; any other text is a
\* SyntaxError (ok = FALSE).
JSONParse(text) ==
    IF \E v \in ParsedValues : JSONStringify(v) = text
    THEN [ok |-> TRUE, value |-> CHOOSE v \in ParsedValues : JSONStringify(v) = text]
    ELSE [ok |-> FALSE, value |-> JUndef]

(***************************************************************************)
(* Errors: an exception is its name and its message.                       *)
(***************************************************************************)
Err(name, message) == [name |-> name, message |-> message]
NoErr == Err("", "")

\* String(err.message ? err.message : err), line 284.
ErrorText(e) == IF e.message # "" THEN e.message ELSE e.name

\* What fetch() rejects with when the transport fails.
NetworkError == Err("TypeError", "Network connection lost.")
\* What response.json() rejects with when the body is not JSON.
BodySyntaxError == Err("SyntaxError", "Unexpected token < in JSON at position 0")

(***************************************************************************)
(* The state.                                                              *)
(***************************************************************************)
VARIABLES
    now,    \* Date.now(), in milliseconds
    env,    \* the worker's bindings: env.GEMINI_API_KEY
    store,  \* the itineraries collection: document id -> document
    http,   \* the response each request was answered with
    job     \* each background job: createAndRunGemini's position and locals

vars == <<now, env, store, http, job>>

\* crypto.randomUUID() (line 30) yields an identifier not issued before.
UUIDs == {"uuid-of-" \o j : j \in Jobs}

\* An entry of a job's log of calls and requests (a history of what the job
\* did): ev is "createDoc", "patchDoc" (a call, data its argument), "oauth",
\* "POST", "PATCH" or "gemini" (a request sent, auth its bearer token, mask
\* its update mask, data its body).
LogEntry(ev, id, auth, mask, data) ==
    [ev |-> ev, id |-> id, auth |-> auth, mask |-> mask, data |-> data]

NoResponse == [status |-> 0, text |-> "", jobId |-> ""]
TextResponse(status, text) == [status |-> status, text |-> text, jobId |-> ""]

IdleJob ==
    [pc |-> "idle", id |-> "", dest |-> JUndef, days |-> JUndef,
     created |-> FALSE, err |-> NoErr, failure |-> "", parsed |-> JUndef,
     data |-> JUndef,
     body |-> Absent, token |-> "", gen |-> FALSE, deadline |-> 0,
     result |-> "", log |-> <<>>]

\* The entries of a log with event ev.
RECURSIVE Select(_, _)
Select(log, ev) ==
    IF Len(log) = 0 THEN <<>>
    ELSE IF log[1].ev = ev THEN <<log[1]>> \o Select(Tail(log), ev)
    ELSE Select(Tail(log), ev)

(***************************************************************************)
(* The request handler, lines 10-35.                                       *)
(***************************************************************************)
\* What request.json() may yield (line 17): a payload, or no JSON at all.
Payloads ==
    {JNull,
     JObj(<<"destination", "durationDays">>, <<JStr("Paris"), JFrac(1, 500)>>),
     JObj(<<"destination", "durationDays">>, <<JStr("Paris"), JStr("2")>>),
     JObj(<<"destination", "durationDays">>, <<JStr(""), JNum(1)>>),
     JObj(<<"durationDays">>, <<JNum(1)>>),
     JObj(<<"destination", "durationDays">>, <<JNum(7), JNum(1)>>)}
    \cup {JObj(<<"destination", "durationDays">>, <<JStr("Paris"), JNum(d)>>) :
            d \in 0 .. MaxDays}

\* Lines 22-23: the payload passes the handler's validation.
ValidPayload(payload) ==
    LET p == IF Truthy(payload) THEN payload ELSE JObj(<<>>, <<>>)
        destination == GetProp(p, "destination")
        durationDays == GetProp(p, "durationDays")
    IN  ~(\/ ~Truthy(destination)
          \/ ~IsInteger(durationDays)
          \/ durationDays.n < 1)

\* A handler that awaited the job instead: no response while the job runs.
AcknowledgeAfterJob(id) == NoResponse

\* Line 34: the acknowledgment, returned as soon as the job is handed to
\* ctx.waitUntil.
Acknowledge(id) == [status |-> 202, text |-> "", jobId |-> id]

\* Lines 188-191: createAndRunGemini runs up to its first await, inside
\* createDoc's getToken.
StartJob(id, dest, days) ==
    [IdleJob EXCEPT !.pc = "createDoc:getToken", !.id = id, !.dest = dest,
                    !.days = days,
                    !.log = <<LogEntry("createDoc", id, "", {}, JUndef)>>]

(***************************************************************************)
(* createAndRunGemini, lines 188-293, as operators on a job's record jr.   *)
(***************************************************************************)
\* A failure patch that stringifies the exception, not its message.
FailedPatchDataOfError(errorText, t) ==
    JObj(<<"status", "completedAt", "error">>,
         <<JStr("failed"), nowTS(t), JStr("Error: " \o errorText)>>)

\* Line 287: the fields of the failure patch.
FailedPatchData(errorText, t) ==
    JObj(<<"status", "completedAt", "error">>,
         <<JStr("failed"), nowTS(t), JStr(errorText)>>)

\* A completed patch that stores the parsed object, not its itinerary.
CompletedPatchDataOfParsed(parsed, t) ==
    JObj(<<"status", "completedAt", "itinerary", "error">>,
         <<JStr("completed"), nowTS(t), parsed, JNull>>)

\* Lines 269-274: the fields of the completed patch.
CompletedPatchData(parsed, t) ==
    JObj(<<"status", "completedAt", "itinerary", "error">>,
         <<JStr("completed"), nowTS(t), GetProp(parsed, "itinerary"), JNull>>)

\* Lines 119-127: the initial record.
CreateBody(dest, days, t) ==
    JObj(<<"status", "destination", "durationDays", "createdAt", "completedAt",
           "itinerary", "error">>,
         <<JStr("processing"), dest, days, nowTS(t), JNull, JNull, JNull>>)

\* A call of patchDoc(id, data, env) runs up to getToken's first await.
CallPatchDoc(jr, data, pc) ==
    [jr EXCEPT !.pc = pc, !.data = data, !.body = Absent, !.token = "",
               !.deadline = 0,
               !.log = Append(@, LogEntry("patchDoc", jr.id, "", {}, data))]

\* Lines 279-287: an exception thrown in the try block (failure names where)
\* is caught; the job calls patchDoc with the failure fields.
Catch(jr, failure, e, t) ==
    CallPatchDoc([jr EXCEPT !.err = e, !.failure = failure],
                 FailedPatchData(ErrorText(e), t), "patchFailed:getToken")

\* The job ends; result tells how: "completed" or "failed" after the patch
\* of that status returned, "unrecorded" when the failure patch failed too.
End(jr, result) ==
    [jr EXCEPT !.pc = "done", !.result = result, !.data = JUndef,
               !.body = Absent, !.token = ""]

\* A failure path that calls the failure patch again when it has failed.
InnerCatchRetry(jr, e) == CallPatchDoc(jr, jr.data, "patchFailed:getToken")

\* A failure path without the inner try: the exception leaves the job.
InnerCatchRethrow(jr, e) ==
    [jr EXCEPT !.pc = "rejected", !.err = e, !.data = JUndef, !.body = Absent,
               !.token = ""]

\* Lines 289-291: an exception of the failure patch is logged, and the job
\* ends.
InnerCatch(jr, e) == End(jr, "unrecorded")

\* Lines 277 and 288: the patch returned and nothing is left to do.
Finish(jr, result) == End(jr, result)

(***************************************************************************)
(* getToken, lines 60-114.  The authorization endpoint answers with a      *)
(* token ("ok"), with a body that has no access_token ("denied"), or the   *)
(* request fails in transport ("netfail").                                 *)
(***************************************************************************)
TokenReplies == {"ok", "denied", "netfail"}

\* Line 112, and what fetch rejects with at line 103.
TokenError(reply) ==
    IF reply = "denied"
    THEN Err("Error", "GCP OAuth error: "
                      \o JSONStringify(JObj(<<"error">>, <<JStr("invalid_grant")>>)))
    ELSE NetworkError

\* The job's log with the token request added, and the token it yields: each
\* exchange yields a new token.
WithTokenRequest(jr) ==
    [jr EXCEPT !.log = Append(@, LogEntry("oauth", jr.id, "", {}, JUndef))]
\* A token minted once and kept for the calls that follow.
CachedToken(jr) == "token-1"
MintedToken(jr) == "token-" \o ToString(Len(Select(jr.log, "oauth")))

(***************************************************************************)
(* The document store's answers to a create or a patch: accepted ("ok"),   *)
(* rejected with a JSON error body ("403", and "409" for a create of an    *)
(* existing document), rejected with a body that is not JSON ("503"), the  *)
(* request lost before the store applied it ("netfail"), or the response   *)
(* lost after the store applied it ("lost").                               *)
(***************************************************************************)
PatchReplies == {"ok", "403", "503", "netfail", "lost"}
CreateReplies(doc) ==
    IF doc.exists THEN {"409", "503", "netfail"} ELSE PatchReplies
Applied(reply) == reply \in {"ok", "lost"}

StatusLine(reply) ==
    CASE reply = "403" -> "403 Forbidden"
      [] reply = "409" -> "409 Conflict"
      [] OTHER -> "503 Service Unavailable"
ErrorBody(reply) ==
    JObj(<<"error">>,
         <<JObj(<<"status">>,
                <<JStr(IF reply = "409" THEN "ALREADY_EXISTS"
                       ELSE "PERMISSION_DENIED")>>)>>)

\* Lines 141-147 and 171-177 (op is "create" or "patch"), and what fetch
\* and response.json() reject with.
StoreError(op, reply) ==
    IF reply \in {"netfail", "lost"} THEN NetworkError
    ELSE IF reply = "503" THEN BodySyntaxError
    ELSE Err("Error", "Firestore " \o op \o " failed: " \o StatusLine(reply)
                      \o ". " \o "Details: " \o JSONStringify(ErrorBody(reply)))
StoreFailure(reply) ==
    IF reply \in {"netfail", "lost"} THEN "transport" ELSE "store"

(***************************************************************************)
(* createDoc, lines 116-148.                                               *)
(***************************************************************************)
\* Lines 117-139: the token arrives (or not); the body is built and encoded
\* and the create request is sent.
CreateDocAfterToken(jr, reply, t) ==
    LET jo == WithTokenRequest(jr)
        data == CreateBody(jr.dest, jr.days, t)
        body == EncodeFields(data)
    IN  IF reply # "ok"
        THEN Catch(jo, "createDoc:credential", TokenError(reply), t)
        ELSE IF body.tag = "throw"
        THEN Catch(jo, "createDoc:encode", Err("RangeError", body.s), t)
        ELSE [jo EXCEPT !.pc = "createDoc:fetch", !.token = MintedToken(jo),
                        !.data = data, !.body = body,
                        !.log = Append(@, LogEntry("POST", jr.id, MintedToken(jo),
                                                   {}, data))]

\* Lines 194-257: with the record created, the API key is checked and the
\* generation request is sent, racing a timer of TIMEOUT_MS.
AfterCreateDoc(jr, e, t) ==
    LET jo == [jr EXCEPT !.created = TRUE, !.data = JUndef, !.body = Absent,
                         !.token = ""]
    IN  IF ~Truthy(e.GEMINI_API_KEY)
        THEN Catch(jo, "apikey",
                   Err("Error", "GEMINI_API_KEY environment variable not set."), t)
        ELSE [jo EXCEPT !.pc = "gemini:await", !.gen = TRUE,
                        !.deadline = t + TIMEOUT_MS,
                        !.log = Append(@, LogEntry("gemini", jr.id, "", {}, JUndef))]

\* A createDoc that is called again when its request has failed.
CreateDocAfterFetchRetry(jr, reply, e, t) ==
    IF reply = "ok" THEN AfterCreateDoc(jr, e, t)
    ELSE [jr EXCEPT !.pc = "createDoc:getToken", !.data = JUndef, !.body = Absent,
                    !.token = "",
                    !.log = Append(@, LogEntry("createDoc", jr.id, "", {}, JUndef))]

\* Lines 128-147: the store's answer to the create request.
CreateDocAfterFetch(jr, reply, e, t) ==
    IF reply = "ok" THEN AfterCreateDoc(jr, e, t)
    ELSE Catch(jr, "createDoc:" \o StoreFailure(reply), StoreError("create", reply), t)

(***************************************************************************)
(* The generation call, lines 249-266.                                     *)
(***************************************************************************)
Candidate(text) ==
    JObj(<<"candidates">>,
         <<JArr(<<JObj(<<"content">>,
                       <<JObj(<<"parts">>,
                              <<JArr(<<JObj(<<"text">>, <<JStr(text)>>)>>)>>)>>)>>)>>)

\* What the generation service may answer: a JSON body, a body that is not
\* JSON ("notjson"), or nothing because the transport failed ("netfail").
GeminiBodies ==
    {JNull, JObj(<<>>, <<>>),
     JObj(<<"error">>, <<JObj(<<"message">>, <<JStr("Quota exceeded")>>)>>),
     JObj(<<"error">>, <<JObj(<<"code">>, <<JNum(429)>>)>>),
     Candidate(""), Candidate("oops")}
    \cup {Candidate(JSONStringify(v)) : v \in ParsedValues}
GeminiReplies ==
    {[kind |-> "netfail", resp |-> JUndef], [kind |-> "notjson", resp |-> JUndef]}
    \cup {[kind |-> "json", resp |-> b] : b \in GeminiBodies}

Failed(failure, e, parsed) ==
    [ok |-> FALSE, parsed |-> parsed, failure |-> failure, err |-> e]

\* Lines 264-266: the check of the parsed value.
CheckParsed(parsed) ==
    IF ~Truthy(parsed) \/ ~Truthy(GetProp(parsed, "itinerary"))
    THEN IF parsed.t \in {"null", "undef"}
         THEN Failed("malformed",
                     Err("TypeError", "Cannot convert undefined or null to object"),
                     parsed)
         ELSE Failed("malformed",
                     Err("Error", "Missing 'itinerary' key in parsed JSON. Found keys: "
                                  \o JoinWith(ObjectKeys(parsed), ", ")),
                     parsed)
    ELSE [ok |-> TRUE, parsed |-> parsed, failure |-> "", err |-> NoErr]

\* Lines 260-266: from the response body to the parsed value, or to the
\* exception thrown.
GeminiResult(resp) ==
    LET error == GetProp(resp, "error")
        message == GetProp(error, "message")
        textContent ==
            GetProp(First(GetProp(GetProp(First(GetProp(resp, "candidates")),
                                          "content"), "parts")), "text")
        parse == JSONParse(JSString(textContent))
    IN  IF resp.t \in {"null", "undef"}
        THEN Failed("malformed",
                    Err("TypeError", "Cannot read properties of null (reading 'error')"),
                    JUndef)
        ELSE IF Truthy(error)
        THEN Failed("service",
                    Err("Error", IF Truthy(message) THEN JSString(message)
                                 ELSE "Unknown Gemini API error"),
                    JUndef)
        ELSE IF ~Truthy(textContent)
        THEN Failed("malformed", Err("Error", "Invalid response structure from Gemini."),
                    JUndef)
        ELSE IF ~parse.ok
        THEN Failed("malformed",
                    Err("SyntaxError", "Unexpected token o in JSON at position 0"),
                    JUndef)
        ELSE CheckParsed(parse.value)

\* Lines 249-276: the generation call settles before the timer; on success
\* the job calls patchDoc with the completed fields.
AfterGemini(jr, reply, t) ==
    LET jo == [jr EXCEPT !.gen = FALSE]
        r == GeminiResult(reply.resp)
    IN  IF reply.kind = "netfail" THEN Catch(jo, "transport", NetworkError, t)
        ELSE IF reply.kind = "notjson" THEN Catch(jo, "transport", BodySyntaxError, t)
        ELSE IF r.ok
        THEN CallPatchDoc([jo EXCEPT !.parsed = r.parsed],
                          CompletedPatchData(r.parsed, t), "patchCompleted:getToken")
        ELSE Catch([jo EXCEPT !.parsed = r.parsed], r.failure, r.err, t)

\* Lines 181-186: the timer of withTimeout rejects first.  The generation
\* call stays in flight.
TimeoutError ==
    Err("Error", "Gemini API call" \o " timed out after " \o ToString(TIMEOUT_MS) \o "ms")
AfterTimeout(jr, t) == Catch(jr, "timeout", TimeoutError, t)

\* A generation call awaited without the race: its late answer is handled.
AfterLateGeminiHandled(jr, reply, t) == AfterGemini(jr, reply, t)

\* Line 185: Promise.race has settled, so a generation call that settles
\* afterwards changes nothing.
AfterLateGemini(jr, reply, t) == [jr EXCEPT !.gen = FALSE]

(***************************************************************************)
(* patchDoc, lines 149-178.                                                *)
(***************************************************************************)
\* Lines 150-169: the token arrives (or not); the update mask and the
\* encoded body are built and the patch request is sent.  jr.data is the
\* call's data.  An exception is left to the caller.
PatchDocAfterToken(jr, reply) ==
    LET jo == WithTokenRequest(jr)
        body == EncodeFields(jr.data)
    IN  IF reply # "ok" THEN [ok |-> FALSE, err |-> TokenError(reply),
                              failure |-> "patchDoc:credential", jr |-> jo]
        ELSE IF body.tag = "throw"
        THEN [ok |-> FALSE, err |-> Err("RangeError", body.s),
              failure |-> "patchDoc:encode", jr |-> jo]
        ELSE [ok |-> TRUE, err |-> NoErr, failure |-> "",
              jr |-> [jo EXCEPT !.token = MintedToken(jo), !.body = body,
                                !.log = Append(@, LogEntry("PATCH", jr.id,
                                                   MintedToken(jo),
                                                   UpdateMask(jr.data), jr.data))]]

\* The completed patch (lines 269-276) and the failure patch (line 287),
\* at the token.
CompletedAfterToken(jr, reply, t) ==
    LET r == PatchDocAfterToken(jr, reply)
    IN  IF r.ok THEN [r.jr EXCEPT !.pc = "patchCompleted:fetch"]
        ELSE Catch(r.jr, r.failure, r.err, t)
FailedAfterToken(jr, reply, t) ==
    LET r == PatchDocAfterToken(jr, reply)
    IN  IF r.ok THEN [r.jr EXCEPT !.pc = "patchFailed:fetch"]
        ELSE InnerCatch(r.jr, r.err)

\* and at the store's answer (lines 171-177).
CompletedAfterFetch(jr, reply, t) ==
    IF reply = "ok" THEN Finish(jr, "completed")
    ELSE Catch(jr, "patchDoc:" \o StoreFailure(reply), StoreError("patch", reply), t)
FailedAfterFetch(jr, reply, t) ==
    IF reply = "ok" THEN Finish(jr, "failed")
    ELSE InnerCatch(jr, StoreError("patch", reply))

(***************************************************************************)
(* The actions.                                                            *)
(***************************************************************************)
Init ==
    /\ now = 0
    /\ env \in {[GEMINI_API_KEY |-> JStr("key")], [GEMINI_API_KEY |-> JUndef]}
    /\ store = [id \in UUIDs |-> NoDoc]
    /\ http = [j \in Jobs |-> NoResponse]
    /\ job = [j \in Jobs |-> IdleJob]

Issued == {job[j].id : j \in Jobs}

\* Time passes.
Tick ==
    /\ now < MaxTicks * TIMEOUT_MS
    /\ now' = now + TIMEOUT_MS
    /\ UNCHANGED <<env, store, http, job>>

\* fetch(request, env, ctx), lines 10-35: a request is answered, and a valid
\* one starts a job.
Fetch(j) ==
    /\ job[j].pc = "idle"
    /\ \E method \in {"POST", "GET"}, parses \in BOOLEAN, payload \in Payloads :
         IF method # "POST"
         THEN /\ http' = [http EXCEPT ![j] =
                            TextResponse(405, "Only POST requests are accepted")]
              /\ job' = [job EXCEPT ![j].pc = "answered"]
         ELSE IF ~parses
         THEN /\ http' = [http EXCEPT ![j] = TextResponse(400, "Invalid JSON body")]
              /\ job' = [job EXCEPT ![j].pc = "answered"]
         ELSE IF ~ValidPayload(payload)
         THEN /\ http' = [http EXCEPT ![j] = TextResponse(400,
                  "A destination (string) and durationDays (positive integer) are required.")]
              /\ job' = [job EXCEPT ![j].pc = "answered"]
         ELSE \E id \in UUIDs \ Issued :
                /\ job' = [job EXCEPT ![j] =
                             StartJob(id, GetProp(payload, "destination"),
                                      GetProp(payload, "durationDays"))]
                /\ http' = [http EXCEPT ![j] = Acknowledge(id)]
    /\ UNCHANGED <<now, env, store>>

\* createDoc: getToken settles (line 117).
CreateDocGetToken(j) ==
    /\ job[j].pc = "createDoc:getToken"
    /\ \E reply \in TokenReplies :
         job' = [job EXCEPT ![j] = CreateDocAfterToken(job[j], reply, now)]
    /\ UNCHANGED <<now, env, store, http>>

\* createDoc: the create request settles (lines 128-147).
CreateDocFetch(j) ==
    /\ job[j].pc = "createDoc:fetch"
    /\ \E reply \in CreateReplies(store[job[j].id]) :
         /\ store' = IF Applied(reply)
                     THEN [store EXCEPT ![job[j].id] = StoreCreate(job[j].body)]
                     ELSE store
         /\ job' = [job EXCEPT ![j] = CreateDocAfterFetch(job[j], reply, env, now)]
    /\ UNCHANGED <<now, env, http>>

\* The generation call settles before the timer fires (lines 249-266).
GeminiResponds(j) ==
    /\ job[j].pc = "gemini:await"
    /\ job[j].gen
    /\ \E reply \in GeminiReplies :
         job' = [job EXCEPT ![j] = AfterGemini(job[j], reply, now)]
    /\ UNCHANGED <<now, env, store, http>>

\* The timer of withTimeout fires first (lines 182-185).
GeminiTimeout(j) ==
    /\ job[j].pc = "gemini:await"
    /\ now >= job[j].deadline
    /\ job' = [job EXCEPT ![j] = AfterTimeout(job[j], now)]
    /\ UNCHANGED <<now, env, store, http>>

\* The abandoned generation call settles after the timer has fired.
GeminiLate(j) ==
    /\ job[j].pc # "gemini:await"
    /\ job[j].gen
    /\ \E reply \in GeminiReplies :
         job' = [job EXCEPT ![j] = AfterLateGemini(job[j], reply, now)]
    /\ UNCHANGED <<now, env, store, http>>

\* patchDoc of the completed patch: getToken settles (line 150).
CompletedPatchGetToken(j) ==
    /\ job[j].pc = "patchCompleted:getToken"
    /\ \E reply \in TokenReplies :
         job' = [job EXCEPT ![j] = CompletedAfterToken(job[j], reply, now)]
    /\ UNCHANGED <<now, env, store, http>>

\* patchDoc of the completed patch: the patch request settles.
CompletedPatchFetch(j) ==
    /\ job[j].pc = "patchCompleted:fetch"
    /\ \E reply \in PatchReplies :
         /\ store' = IF Applied(reply)
                     THEN [store EXCEPT ![job[j].id] =
                             StorePatch(@, UpdateMask(job[j].data), job[j].body)]
                     ELSE store
         /\ job' = [job EXCEPT ![j] = CompletedAfterFetch(job[j], reply, now)]
    /\ UNCHANGED <<now, env, http>>

\* patchDoc of the failure patch: getToken settles (line 150).
FailedPatchGetToken(j) ==
    /\ job[j].pc = "patchFailed:getToken"
    /\ \E reply \in TokenReplies :
         job' = [job EXCEPT ![j] = FailedAfterToken(job[j], reply, now)]
    /\ UNCHANGED <<now, env, store, http>>

\* patchDoc of the failure patch: the patch request settles.
FailedPatchFetch(j) ==
    /\ job[j].pc = "patchFailed:fetch"
    /\ \E reply \in PatchReplies :
         /\ store' = IF Applied(reply)
                     THEN [store EXCEPT ![job[j].id] =
                             StorePatch(@, UpdateMask(job[j].data), job[j].body)]
                     ELSE store
         /\ job' = [job EXCEPT ![j] = FailedAfterFetch(job[j], reply, now)]
    /\ UNCHANGED <<now, env, http>>

\* A step of job j's background task.
JobStep(j) ==
    \/ CreateDocGetToken(j)
    \/ CreateDocFetch(j)
    \/ GeminiResponds(j)
    \/ GeminiTimeout(j)
    \/ GeminiLate(j)
    \/ CompletedPatchGetToken(j)
    \/ CompletedPatchFetch(j)
    \/ FailedPatchGetToken(j)
    \/ FailedPatchFetch(j)

Next ==
    \/ Tick
    \/ \E j \in Jobs : Fetch(j)
    \/ \E j \in Jobs : JobStep(j)

Spec == Init /\ [][Next]_vars

(***************************************************************************)
(* Vocabulary of the properties.                                           *)
(***************************************************************************)
\* The job has been started (its request was acknowledged).
Started(j) == job[j].pc \notin {"idle", "answered"}
\* The document of job j, and a field of a document.
DocOf(j) == store[job[j].id]
Field(doc, name) == doc.fields[name]
\* A field is null when it holds the null value or is not there at all.
IsNull(w) == w.tag \in {"nullValue", "absent"}
StatusIs(doc, status) == Field(doc, "status") = WStr(status)
Terminal(doc) == StatusIs(doc, "completed") \/ StatusIs(doc, "failed")
\* The calls of patchDoc a job has made with the given status.
PatchCalls(jr, status) ==
    LET calls == Select(jr.log, "patchDoc")
        Keep(i) == GetProp(calls[i].data, "status") = JStr(status)
        F[i \in 0 .. Len(calls)] ==
            IF i = 0 THEN <<>>
            ELSE IF Keep(i) THEN Append(F[i - 1], calls[i]) ELSE F[i - 1]
    IN  F[Len(calls)]
\* createDoc failed (in its token mint, its encoding, or its request).
CreateFailed(jr) ==
    jr.failure \in {"createDoc:credential", "createDoc:encode", "createDoc:store",
                    "createDoc:transport"}

(***************************************************************************)
(* C1.  In every state of a job's record, itinerary and error are never    *)
(* both non-null: a completed record has an itinerary and no error, a      *)
(* failed record an error and no itinerary, a processing record neither.   *)
(* The code breaks this: when the store applies the completed patch but    *)
(* its response is lost, the failure patch (line 287) sets status and      *)
(* error and leaves the itinerary in place.                                *)
(***************************************************************************)
C1_ItineraryErrorExclusive ==
    \A id \in UUIDs :
        store[id].exists =>
            LET doc == store[id]
                itinerary == Field(doc, "itinerary")
                error == Field(doc, "error")
            IN  /\ ~(~IsNull(itinerary) /\ ~IsNull(error))
                /\ StatusIs(doc, "completed") => ~IsNull(itinerary) /\ IsNull(error)
                /\ StatusIs(doc, "failed") => ~IsNull(error) /\ IsNull(itinerary)
                /\ StatusIs(doc, "processing") => IsNull(itinerary) /\ IsNull(error)

(***************************************************************************)
(* C2.  A record's status only moves forward: once it is completed or      *)
(* failed, no later step changes it.  The code breaks this on the same     *)
(* run: a completed record is patched to failed.                           *)
(***************************************************************************)
C2_TerminalStatusIsFinal ==
    [][\A id \in UUIDs :
          Terminal(store[id]) =>
              Field(store'[id], "status") = Field(store[id], "status")]_vars

(***************************************************************************)
(* C3.  If createDoc fails, no patchDoc is attempted for the job, the      *)
(* generation service is never called, and the job's record never becomes  *)
(* terminal.  The code breaks this: createDoc is inside the try block, so  *)
(* its failure is caught and the failure patch is sent.                    *)
(***************************************************************************)
C3_CreateFailureAbandonsJob ==
    \A j \in Jobs :
        CreateFailed(job[j]) =>
            /\ Select(job[j].log, "patchDoc") = <<>>
            /\ Select(job[j].log, "gemini") = <<>>
            /\ ~Terminal(DocOf(j))

(***************************************************************************)
(* C4.  For every job whose record was created, a failure that follows     *)
(* (missing API key, timeout, transport failure, service-reported error,   *)
(* malformed output, failing completed patch) leads to exactly one         *)
(* patchDoc call with the fields {status: "failed", completedAt, error},   *)
(* error being the text of the exception that was thrown.                  *)
(***************************************************************************)
IsTimestamp(v) ==
    /\ v.t = "obj"
    /\ v.k = <<"seconds", "nanos">>
    /\ v.a[1].t = "num"
    /\ v.a[2] = JNum(0)
\* The message the code gives the failures it raises itself.
OwnMessage(jr) ==
    CASE jr.failure = "apikey" -> "GEMINI_API_KEY environment variable not set."
      [] jr.failure = "timeout" -> "Gemini API call timed out after 45000ms"
      [] OTHER -> IF jr.err.message # "" THEN jr.err.message ELSE jr.err.name
C4_OneFailedPatchWithMessage ==
    \A j \in Jobs :
        job[j].created /\ job[j].failure # "" =>
            LET calls == PatchCalls(job[j], "failed")
            IN  /\ Len(calls) = 1
                /\ calls[1].id = job[j].id
                /\ calls[1].data.k = <<"status", "completedAt", "error">>
                /\ IsTimestamp(GetProp(calls[1].data, "completedAt"))
                /\ GetProp(calls[1].data, "error") = JStr(OwnMessage(job[j]))
\* A created job whose completed patch the store rejected has ended.
C4_Witness ==
    \E j \in Jobs :
        /\ job[j].created
        /\ job[j].failure = "patchDoc:store"
        /\ job[j].pc = "done"
        /\ Len(PatchCalls(job[j], "failed")) = 1

(***************************************************************************)
(* C5.  When createDoc succeeds, the generation service answers with an    *)
(* itinerary before the deadline and the completed patch is accepted, the  *)
(* job ends with its record completed: the itinerary is the encoded        *)
(* generated value, error is null, and no failure patch was ever           *)
(* attempted.                                                              *)
(***************************************************************************)
C5_SuccessfulRunCompletes ==
    \A j \in Jobs :
        job[j].result = "completed" =>
            /\ job[j].pc = "done"
            /\ job[j].created
            /\ StatusIs(DocOf(j), "completed")
            /\ Field(DocOf(j), "itinerary") = wrap(GetProp(job[j].parsed, "itinerary"))
            /\ ~IsNull(Field(DocOf(j), "itinerary"))
            /\ Field(DocOf(j), "error") = WNull
            /\ Field(DocOf(j), "completedAt").tag = "timestampValue"
            /\ PatchCalls(job[j], "failed") = <<>>
\* A 2-day request has ended with a 2-day itinerary in its record.
C5_Witness ==
    \E j \in Jobs :
        /\ job[j].result = "completed"
        /\ job[j].days = JNum(2)
        /\ Field(DocOf(j), "itinerary").tag = "arrayValue"
        /\ Len(Field(DocOf(j), "itinerary").a) = 2

(***************************************************************************)
(* C6.  When the generation call has not answered by the deadline, the job *)
(* takes the failure path with a timeout error and the call is abandoned:  *)
(* an answer that arrives later never causes a completed patch, and when   *)
(* the failure patch is accepted the record is failed with the timeout     *)
(* message as its error.                                                   *)
(***************************************************************************)
C6_TimeoutAbandonsCall ==
    \A j \in Jobs :
        job[j].failure = "timeout" =>
            /\ PatchCalls(job[j], "completed") = <<>>
            /\ Len(PatchCalls(job[j], "failed")) = 1
            /\ job[j].pc \in {"patchFailed:getToken", "patchFailed:fetch", "done"}
            /\ job[j].result = "failed" =>
                   /\ StatusIs(DocOf(j), "failed")
                   /\ Field(DocOf(j), "error") =
                          WStr("Gemini API call timed out after 45000ms")
                   /\ IsNull(Field(DocOf(j), "itinerary"))
\* The late answer has arrived and the job has ended with a failed record.
C6_Witness ==
    \E j \in Jobs :
        /\ job[j].failure = "timeout"
        /\ ~job[j].gen
        /\ job[j].result = "failed"
        /\ StatusIs(DocOf(j), "failed")

(***************************************************************************)
(* C7.  createAndRunGemini never raises past its own boundary: whatever    *)
(* fails (token mint, createDoc, generation, completed patch, failure      *)
(* patch), the job either has ended normally or is at one of its awaits,   *)
(* where it goes on as soon as the remote call settles.                    *)
(***************************************************************************)
AwaitPoints ==
    {"createDoc:getToken", "createDoc:fetch", "gemini:await",
     "patchCompleted:getToken", "patchCompleted:fetch",
     "patchFailed:getToken", "patchFailed:fetch"}
C7_NeverRaises ==
    \A j \in Jobs :
        Started(j) =>
            \/ /\ job[j].pc = "done"
               /\ job[j].result \in {"completed", "failed", "unrecorded"}
            \/ /\ job[j].pc \in AwaitPoints
               /\ ENABLED JobStep(j)
\* The completed patch failed, the failure patch failed too, the job ended.
C7_Witness ==
    \E j \in Jobs :
        /\ job[j].pc = "done"
        /\ job[j].result = "unrecorded"
        /\ job[j].failure \in {"patchDoc:store", "patchDoc:transport",
                               "patchDoc:credential"}

(***************************************************************************)
(* C8.  Every valid request is answered 202 with the job id before any     *)
(* step of the pipeline: when the response is produced the job has sent no *)
(* request, and in every later state, however the pipeline goes, the       *)
(* response is that same acknowledgment.                                   *)
(***************************************************************************)
C8_AcknowledgedAtOnce ==
    [][\A j \in Jobs :
          /\ Started(j)' =>
                /\ job'[j].id # ""
                /\ http'[j] = [status |-> 202, text |-> "", jobId |-> job'[j].id]
          /\ http[j] # NoResponse => http'[j] = http[j]
          /\ ~Started(j) /\ Started(j)' =>
                \A i \in DOMAIN job'[j].log : job'[j].log[i].ev = "createDoc"]_vars
\* An acknowledged job has ended with both of its patches failed.
C8_Witness ==
    \E j \in Jobs :
        /\ http[j].status = 202
        /\ job[j].pc = "done"
        /\ job[j].result = "unrecorded"
        /\ job[j].created

(***************************************************************************)
(* C9.  A job is patched to completed only if the generation output is a   *)
(* JSON object whose itinerary is an array of exactly durationDays         *)
(* day-objects; other output is never stored as the record's itinerary.    *)
(* The code breaks this: lines 264-266 only test that parsed.itinerary is  *)
(* truthy.                                                                 *)
(***************************************************************************)
IsActivity(v) ==
    /\ v.t = "obj"
    /\ \A key \in {"time", "description", "location"} : GetProp(v, key).t = "str"
IsDayObject(v) ==
    /\ v.t = "obj"
    /\ IsInteger(GetProp(v, "day"))
    /\ GetProp(v, "theme").t = "str"
    /\ GetProp(v, "activities").t = "arr"
    /\ \A i \in DOMAIN GetProp(v, "activities").a :
           IsActivity(GetProp(v, "activities").a[i])
MatchesSchema(parsed, days) ==
    /\ parsed.t = "obj"
    /\ GetProp(parsed, "itinerary").t = "arr"
    /\ Len(GetProp(parsed, "itinerary").a) = days.n
    /\ \A i \in DOMAIN GetProp(parsed, "itinerary").a :
           IsDayObject(GetProp(parsed, "itinerary").a[i])
C9_OnlySchemaValidOutputCompletes ==
    \A j \in Jobs :
        Started(j) =>
            /\ PatchCalls(job[j], "completed") # <<>> =>
                   MatchesSchema(job[j].parsed, job[j].days)
            /\ ~IsNull(Field(DocOf(j), "itinerary")) =>
                   MatchesSchema(job[j].parsed, job[j].days)

(***************************************************************************)
(* C10.  When the text of the generation response parses as JSON that has  *)
(* no itinerary key, the job fails with the malformed-output error whose   *)
(* message lists exactly the keys of the parsed value, and when the        *)
(* failure patch is accepted the record is failed with that message.  The  *)
(* code breaks this for the text "null": line 264 tests !parsed, and line  *)
(* 265 then calls Object.keys(null), which throws a TypeError.             *)
(***************************************************************************)
MissingKeyMessage(parsed) ==
    "Missing 'itinerary' key in parsed JSON. Found keys: "
    \o JoinWith(IF parsed.t = "obj" THEN parsed.k ELSE <<>>, ", ")
C10_MissingKeyListsKeys ==
    \A j \in Jobs :
        job[j].parsed.t # "undef" /\ ~HasKey(job[j].parsed, "itinerary") =>
            /\ job[j].failure = "malformed"
            /\ job[j].err.message = MissingKeyMessage(job[j].parsed)
            /\ job[j].result = "failed" =>
                   /\ StatusIs(DocOf(j), "failed")
                   /\ Field(DocOf(j), "error") = WStr(MissingKeyMessage(job[j].parsed))

(***************************************************************************)
(* C11.  A patch request names in its update mask exactly the field paths  *)
(* of its body, so no patch a job issues changes the fields it is not      *)
(* given: the destination, durationDays and createdAt of a record that     *)
(* exists are the same after every step, and those of a created record are *)
(* the values createDoc set.                                               *)
(***************************************************************************)
CreationFields == {"destination", "durationDays", "createdAt"}
PatchInFlight(jr) == jr.pc \in {"patchCompleted:fetch", "patchFailed:fetch"}
C11_PatchLeavesOtherFieldsUntouched ==
    [][/\ \A j \in Jobs :
             PatchInFlight(job'[j]) =>
                 LET request == job'[j].log[Len(job'[j].log)]
                     body == job'[j].body
                 IN  /\ request.ev = "PATCH"
                     /\ request.mask = {body.k[i] : i \in DOMAIN body.k}
                     /\ request.mask \cap CreationFields = {}
       /\ \A id \in UUIDs :
             store[id].exists =>
                 \A fl \in CreationFields :
                     Field(store'[id], fl) = Field(store[id], fl)
       /\ \A j \in Jobs :
             job'[j].created =>
                 /\ Field(store'[job'[j].id], "destination") = wrap(job'[j].dest)
                 /\ Field(store'[job'[j].id], "durationDays") = wrap(job'[j].days)
                 /\ Field(store'[job'[j].id], "createdAt").tag = "timestampValue"]_vars
\* A created record has been patched to failed and still names its request.
C11_Witness ==
    \E j \in Jobs :
        /\ job[j].created
        /\ job[j].result = "failed"
        /\ StatusIs(DocOf(j), "failed")
        /\ Field(DocOf(j), "destination") = WStr("Paris")
        /\ Field(DocOf(j), "durationDays") = WInt(2)

(***************************************************************************)
(* C12.  wrap is total: whatever value a job hands to createDoc or         *)
(* patchDoc (null, numbers, strings, arrays, records, records with a       *)
(* seconds field of any type, values nested in a generated itinerary),     *)
(* every field is encoded to a wire value and nothing is thrown.  The code *)
(* breaks this: line 47 calls toISOString on new Date(v.seconds * 1e3),    *)
(* which throws a RangeError when v.seconds is not numeric.                *)
(***************************************************************************)
C12_WrapIsTotal ==
    \A j \in Jobs :
        job[j].data.t = "obj" =>
            /\ \A i \in DOMAIN job[j].data.a : wrap(job[j].data.a[i]).tag # "throw"
            /\ EncodeFields(job[j].data).tag = "mapValue"

(***************************************************************************)
(* C13.  wrap applies its rules in order at every depth of the values a    *)
(* job encodes: null gives the null tag; an array the array tag with its   *)
(* elements encoded in order; a record with a seconds field the timestamp  *)
(* tag, never the map tag; any other record the map tag with every entry   *)
(* encoded; an integral number the integer tag, another number the double  *)
(* tag, anything else the string tag.  The code breaks this on the input   *)
(* of C12: a record whose seconds is not numeric yields no tag at all, and *)
(* neither does the array or record that holds it.                         *)
(***************************************************************************)
TagByRule(v) ==
    IF v.t = "null" THEN "nullValue"
    ELSE IF v.t = "arr" THEN "arrayValue"
    ELSE IF HasKey(v, "seconds") THEN "timestampValue"
    ELSE IF v.t = "obj" THEN "mapValue"
    ELSE IF v.t = "num" /\ v.f = 0 THEN "integerValue"
    ELSE IF v.t = "num" THEN "doubleValue"
    ELSE "stringValue"
RECURSIVE EncodedByRule(_)
EncodedByRule(v) ==
    LET w == wrap(v)
    IN  /\ w.tag = TagByRule(v)
        /\ w.tag \in {"arrayValue", "mapValue"} =>
               /\ DOMAIN w.a = DOMAIN v.a
               /\ w.k = v.k
               /\ \A i \in DOMAIN v.a : w.a[i] = wrap(v.a[i]) /\ EncodedByRule(v.a[i])
        /\ w.tag \in {"integerValue", "doubleValue"} => w.n = v.n /\ w.f = v.f
        /\ w.tag = "stringValue" => w.s = JSString(v)
C13_WrapRulesInOrder ==
    \A j \in Jobs :
        job[j].data.t = "obj" =>
            \A i \in DOMAIN job[j].data.a : EncodedByRule(job[j].data.a[i])

(***************************************************************************)
(* C14.  Whenever the store rejects a create or a patch request, createDoc *)
(* or patchDoc fails with an error that carries the response's status and  *)
(* its body, whatever the body is.  The code breaks this: lines 142 and    *)
(* 172 read the body with response.json(), which throws a SyntaxError of   *)
(* its own when the body is not JSON, and that error names neither.        *)
(***************************************************************************)
Rejections == {"403", "409", "503"}
\* The text of the response body of a rejection.
ResponseText(reply) ==
    IF reply = "503" THEN "<html>Service Unavailable</html>"
    ELSE JSONStringify(ErrorBody(reply))
RejectionMessage(op, reply) ==
    "Firestore " \o op \o " failed: " \o StatusLine(reply) \o ". Details: "
    \o ResponseText(reply)
C14_StoreErrorCarriesStatusAndBody ==
    \A j \in Jobs :
        /\ job[j].failure = "createDoc:store" =>
               \E reply \in Rejections :
                   job[j].err = Err("Error", RejectionMessage("create", reply))
        /\ job[j].failure = "patchDoc:store" =>
               \E reply \in Rejections :
                   job[j].err = Err("Error", RejectionMessage("patch", reply))

(***************************************************************************)
(* C15.  When the authorization exchange yields no access token, getToken  *)
(* fails and the createDoc or patchDoc call that asked for the token fails *)
(* without sending a request to the store; every request to the store is   *)
(* sent at the end of a token exchange of its own call and carries the     *)
(* token of that exchange, which no earlier request carried.               *)
(***************************************************************************)
TokenPoints ==
    {"createDoc:getToken", "patchCompleted:getToken", "patchFailed:getToken"}
FetchPoint(pc) ==
    CASE pc = "createDoc:getToken" -> "createDoc:fetch"
      [] pc = "patchCompleted:getToken" -> "patchCompleted:fetch"
      [] pc = "patchFailed:getToken" -> "patchFailed:fetch"
      [] OTHER -> ""
IsStoreRequest(entry) == entry.ev \in {"POST", "PATCH"}
\* What a step adds to a job's log.
Added(before, after) == SubSeq(after, Len(before) + 1, Len(after))
C15_NoTokenNoStoreRequest ==
    [][\A j \in Jobs :
          LET added == Added(job[j].log, job'[j].log)
              sent == {i \in DOMAIN added : IsStoreRequest(added[i])}
          IN  /\ job[j].pc \in TokenPoints /\ added # <<>> =>
                    /\ added[1].ev = "oauth"
                    /\ IF job'[j].pc = FetchPoint(job[j].pc)
                       THEN /\ sent = {2}
                            /\ Len(added) = 2
                            /\ added[2].id = job[j].id
                            /\ added[2].auth # ""
                            /\ added[2].auth = job'[j].token
                            /\ \A i \in DOMAIN job[j].log :
                                   job[j].log[i].auth # added[2].auth
                       ELSE /\ sent = {}
                            /\ job'[j].pc \in {"patchFailed:getToken", "done"}
              /\ job[j].err # TokenError("denied")
                     /\ job'[j].err = TokenError("denied") =>
                    /\ job[j].pc \in TokenPoints
                    /\ sent = {}
                    /\ job'[j].pc = "patchFailed:getToken"
              /\ job[j].pc \notin TokenPoints => sent = {}]_vars
\* createDoc got no token and sent nothing; the failure patch, with a token
\* of its own, was accepted.
C15_Witness ==
    \E j \in Jobs :
        /\ job[j].failure = "createDoc:credential"
        /\ job[j].err = TokenError("denied")
        /\ Select(job[j].log, "POST") = <<>>
        /\ Len(Select(job[j].log, "PATCH")) = 1
        /\ Select(job[j].log, "PATCH")[1].auth = "token-2"
        /\ job[j].result = "failed"

(***************************************************************************)
(* C16.  A job is started only with a payload whose destination is a       *)
(* string and whose durationDays is a positive integer; a request that is  *)
(* not a POST, has no JSON body or fails that validation is answered with  *)
(* an error, and no job id is minted and no remote call made for it.  The  *)
(* code breaks this: line 23 tests only that destination is truthy, so a   *)
(* destination that is a number starts a job.                              *)
(***************************************************************************)
C16_OnlyValidatedPayloadStartsJob ==
    \A j \in Jobs :
        /\ Started(j) =>
               /\ job[j].dest.t = "str"
               /\ job[j].dest.s # ""
               /\ IsInteger(job[j].days)
               /\ job[j].days.n >= 1
        /\ job[j].pc = "answered" =>
               /\ http[j].status \in {400, 405}
               /\ http[j].jobId = ""
               /\ job[j].id = ""
               /\ job[j].log = <<>>

(***************************************************************************)
(* C17.  When the failure patch itself fails, the job makes no further     *)
(* attempt: it ends, it sends no request to the store or to the generation *)
(* service afterwards, and a record that was in processing stays in        *)
(* processing for good.  The last part does not hold as stated: the patch  *)
(* also fails when the store has applied it and its response is lost, and  *)
(* the record is then failed.                                              *)
(***************************************************************************)
FailurePatchPoints == {"patchFailed:getToken", "patchFailed:fetch"}
\* In this step the failure patch of job j fails: its token exchange or its
\* request settles, and patchDoc does not return.
FailurePatchFails(j) ==
    /\ job[j].pc \in FailurePatchPoints
    /\ job'[j].pc # job[j].pc \/ job'[j].log # job[j].log
    /\ ~(job[j].pc = "patchFailed:getToken" /\ job'[j].pc = "patchFailed:fetch")
    /\ ~(job'[j].pc = "done" /\ job'[j].result = "failed")
\* The step ends the job and sends nothing but the token request of the
\* failing patch.
NoFurtherAttempt(j) ==
    /\ job'[j].pc = "done"
    /\ job'[j].result = "unrecorded"
    /\ \A i \in DOMAIN Added(job[j].log, job'[j].log) :
           Added(job[j].log, job'[j].log)[i].ev = "oauth"
\* The job has ended unrecorded and does nothing more.
StaysEnded(j) ==
    /\ job'[j].pc = "done"
    /\ job'[j].result = "unrecorded"
    /\ job'[j].log = job[j].log
StaysProcessing(id) ==
    StatusIs(store[id], "processing") => StatusIs(store'[id], "processing")
C17_FailedFailurePatchLeavesProcessing ==
    [][\A j \in Jobs :
          /\ FailurePatchFails(j) =>
                 NoFurtherAttempt(j) /\ StaysProcessing(job[j].id)
          /\ job[j].result = "unrecorded" =>
                 StaysEnded(j) /\ StaysProcessing(job[j].id)]_vars

(***************************************************************************)
(* C17, amended.  When the failure patch itself fails, the job makes no    *)
(* further attempt: it ends and sends no request afterwards, and from then *)
(* on its record never changes.  In the failing step the record is left as *)
(* it was, so a record in processing stays in processing, unless the store *)
(* applied the patch and the response was lost: then the record is failed  *)
(* with the patch's error text.                                            *)
(***************************************************************************)
C17_FailedFailurePatchEndsJob ==
    [][\A j \in Jobs :
          /\ FailurePatchFails(j) =>
                 /\ NoFurtherAttempt(j)
                 /\ \/ store'[job[j].id] = store[job[j].id]
                    \/ /\ job[j].pc = "patchFailed:fetch"
                       /\ store'[job[j].id] =
                              StorePatch(store[job[j].id],
                                         {"status", "completedAt", "error"},
                                         job[j].body)
                       /\ StatusIs(store'[job[j].id], "failed")
                       /\ Field(store'[job[j].id], "error") =
                              wrap(GetProp(job[j].data, "error"))
          /\ job[j].result = "unrecorded" =>
                 /\ StaysEnded(j)
                 /\ store'[job[j].id] = store[job[j].id]]_vars
\* Generation failed, the store rejected the failure patch, and the created
\* record is still in processing after the job has ended.
C17_Witness ==
    \E j \in Jobs :
        /\ job[j].created
        /\ job[j].failure = "service"
        /\ job[j].pc = "done"
        /\ job[j].result = "unrecorded"
        /\ Len(Select(job[j].log, "PATCH")) = 1
        /\ StatusIs(DocOf(j), "processing")

(***************************************************************************)
(* C18.  Nothing is retried: in every run of a job createDoc is called at  *)
(* most once, the generation request is sent at most once, patchDoc is     *)
(* called at most once with the completed fields and at most once with the *)
(* failure fields, each call sends at most one token request and one store *)
(* request, and both patches are attempted only when the completed patch   *)
(* itself failed (the failure patch then follows it).                      *)
(***************************************************************************)
CompletedPatchFailures ==
    {"patchDoc:credential", "patchDoc:encode", "patchDoc:store", "patchDoc:transport"}
\* The positions in a log of the patchDoc calls with the given status.
PatchCallAt(log, status) ==
    {i \in DOMAIN log : /\ log[i].ev = "patchDoc"
                        /\ GetProp(log[i].data, "status") = JStr(status)}
C18_NoOperationRetried ==
    \A j \in Jobs :
        LET log == job[j].log
            completed == PatchCallAt(log, "completed")
            failed == PatchCallAt(log, "failed")
        IN  /\ Len(Select(log, "createDoc")) <= 1
            /\ Len(Select(log, "POST")) <= 1
            /\ Len(Select(log, "gemini")) <= 1
            /\ Cardinality(completed) <= 1
            /\ Cardinality(failed) <= 1
            /\ Len(Select(log, "patchDoc")) = Cardinality(completed \cup failed)
            /\ Len(Select(log, "PATCH")) <= Len(Select(log, "patchDoc"))
            /\ Len(Select(log, "oauth"))
                   <= Len(Select(log, "createDoc")) + Len(Select(log, "patchDoc"))
            /\ completed # {} /\ failed # {} =>
                   /\ job[j].failure \in CompletedPatchFailures
                   /\ \A c \in completed, f \in failed : c < f
\* The store rejected the completed patch, and the failure patch was sent:
\* two patch requests, one of each kind.
C18_Witness ==
    \E j \in Jobs :
        /\ job[j].pc = "done"
        /\ job[j].failure = "patchDoc:store"
        /\ Cardinality(PatchCallAt(job[j].log, "completed")) = 1
        /\ Cardinality(PatchCallAt(job[j].log, "failed")) = 1
        /\ Len(Select(job[j].log, "PATCH")) = 2
        /\ Len(Select(job[j].log, "oauth")) = 3

(***************************************************************************)
(* C19.  Within a job the steps run strictly in sequence: the generation   *)
(* request is sent only after createDoc has returned and the record exists *)
(* with status processing; patchDoc is called only after the generation    *)
(* step has finished (by a response, an error or the deadline); and while  *)
(* a request to the store is in flight the job has sent nothing after it.  *)
(* The code breaks the second part: a failure of createDoc is caught       *)
(* (C3), and the failure patch is sent though the generation step never    *)
(* began.                                                                  *)
(***************************************************************************)
\* The generation step of a created job has finished: it is not awaited,
\* and it was either sent or refused for want of an API key.
GenerationFinished(jr) ==
    /\ jr.created
    /\ jr.pc # "gemini:await"
    /\ Select(jr.log, "gemini") # <<>> \/ jr.failure = "apikey"
StoreRequestInFlight(jr) ==
    jr.pc \in {"createDoc:fetch", "patchCompleted:fetch", "patchFailed:fetch"}
\* What the claim asks of a step of job j.
StepInSequence(j) ==
    LET added == Added(job[j].log, job'[j].log)
    IN  /\ (\E i \in DOMAIN added : added[i].ev = "gemini") =>
               /\ job[j].pc = "createDoc:fetch"
               /\ job'[j].created
               /\ StatusIs(store'[job[j].id], "processing")
        /\ (\E i \in DOMAIN added : added[i].ev = "patchDoc") =>
               GenerationFinished(job'[j])
        /\ StoreRequestInFlight(job'[j]) =>
               IsStoreRequest(job'[j].log[Len(job'[j].log)])
C19_StepsInSequence == [][\A j \in Jobs : StepInSequence(j)]_vars

(***************************************************************************)
(* C20.  Each job owns the one document keyed by its own id: every call    *)
(* and request of a job names the job's own id, no two jobs have the same  *)
(* id, and a document changes only by the create request of its job or by  *)
(* a patch of the job whose createDoc succeeded.  The code breaks the last *)
(* part: after a failed createDoc the failure patch is sent all the same   *)
(* (C3) and the store applies it to a document the job never created.      *)
(***************************************************************************)
\* What the claim asks of a step, for the document id.
ChangedByItsOwner(id) ==
    store'[id] # store[id] =>
        \E j \in Jobs :
            /\ job[j].id = id
            /\ \/ job[j].pc = "createDoc:fetch"
               \/ job[j].created /\ PatchInFlight(job[j])
C20_JobOwnsItsDocument ==
    [][/\ \A j \in Jobs :
             \A i \in DOMAIN job'[j].log : job'[j].log[i].id = job'[j].id
       /\ \A j, k \in Jobs :
             Started(j)' /\ Started(k)' /\ j # k => job'[j].id # job'[k].id
       /\ \A id \in UUIDs : ChangedByItsOwner(id)]_vars

====
